---- MODULE Spec2Model ----
(***************************************************************************)
(* Model of the Indy trash-day resolution pipeline (src/server.py):        *)
(* search_address -> get_parcel_info -> get_trash_pickup_details,          *)
(* sequenced by get_indy_trash_day.  One run of get_indy_trash_day is one  *)
(* behaviour; the three services are the environment and may answer every  *)
(* request with any of the modelled responses.                             *)
(***************************************************************************)
EXTENDS Integers, Sequences, FiniteSets, TLC

\* ------------------------------------------------------------------------
\* Bounds of the model
\* ------------------------------------------------------------------------
MaxAddrLen == 3
MaxCands == 2
MaxParcels == 2
\* Depth of nested search_address frames the interpreter allows before it
\* raises RecursionError (sys.getrecursionlimit(), scaled down).
RecursionLimit == 5

\* ------------------------------------------------------------------------
\* Strings of the address query: sequences of characters
\* ------------------------------------------------------------------------
Chars == {"a", " "}

Addresses == UNION {[1..n -> Chars] : n \in 0..MaxAddrLen}

\* str.split(" "): every single space separates, empty tokens are kept,
\* the result always has at least one token.
RECURSIVE Split(_)
Split(s) ==
    IF \A i \in 1..Len(s) : s[i] # " "
    THEN <<s>>
    ELSE LET i == CHOOSE i \in 1..Len(s) :
                      s[i] = " " /\ \A j \in 1..(i - 1) : s[j] # " "
         IN  <<SubSeq(s, 1, i - 1)>> \o Split(SubSeq(s, i + 1, Len(s)))

\* " ".join(tokens)
RECURSIVE Join(_)
Join(toks) ==
    IF toks = <<>> THEN <<>>
    ELSE IF Len(toks) = 1 THEN toks[1]
    ELSE toks[1] \o <<" ">> \o Join(Tail(toks))

\* tokens[:-1]
DropLast(toks) == SubSeq(toks, 1, Len(toks) - 1)

\* " ".join(address_fragment.split(" ")[:-1])
Truncate(s) == Join(DropLast(Split(s)))

\* ------------------------------------------------------------------------
\* JSON / Python values
\* ------------------------------------------------------------------------
JStr(s) == [t |-> "str", s |-> s]
JNum(n) == [t |-> "num", n |-> n]
JNull == [t |-> "null"]
JObj(f) == [t |-> "obj", f |-> f]
JList(items) == [t |-> "list", items |-> items]
\* a response body that response.json() cannot decode
NonJson == [t |-> "nonjson"]
\* Python's None is what JSON null decodes to
None == JNull

EmptyObj == JObj(<<>>)

\* bool(v)
Truthy(v) ==
    CASE v.t = "null" -> FALSE
      [] v.t = "str" -> v.s # ""
      [] v.t = "num" -> v.n # 0
      [] v.t = "obj" -> DOMAIN v.f # {}
      [] v.t = "list" -> v.items # <<>>

\* `key in v` raises TypeError unless v is a container (dict or list here;
\* str containers are not among the modelled payloads)
CanContain(v) == v.t \in {"obj", "list"}

\* key in v, for a container v
PyIn(key, v) ==
    IF v.t = "obj" THEN key \in DOMAIN v.f
    ELSE \E i \in 1..Len(v.items) : v.items[i] = JStr(key)

\* v.get(key, default) of a dict v
Get(v, key, default) == IF key \in DOMAIN v.f THEN v.f[key] ELSE default

\* str(v) as an f-string renders it
PyStr(v) ==
    CASE v.t = "str" -> v.s
      [] v.t = "null" -> "None"
      [] v.t = "num" -> "<number>"
      [] OTHER -> "<repr>"

\* ------------------------------------------------------------------------
\* Responses of the three services
\* ------------------------------------------------------------------------
\* a transport fault (httpx.RequestError: timeout, connection failure)
Fault(kind) == [fault |-> kind, status |-> 0, body |-> NonJson]
\* an HTTP response
Http(status, body) == [fault |-> "none", status |-> status, body |-> body]

Faults == {Fault("timeout"), Fault("connect")}

\* response.raise_for_status() raises HTTPStatusError
RaisesForStatus(resp) == resp.status \notin 200..299

required_keys ==
    <<"address1", "city", "level", "number", "state", "tag", "zipcode">>

RequiredSet == {required_keys[i] : i \in 1..Len(required_keys)}

Addr1 == JObj([address1 |-> JStr("1234 MAIN ST"), city |-> JStr("INDIANAPOLIS"),
               level |-> JStr("1"), number |-> JStr("1234"),
               state |-> JStr("IN"), tag |-> JStr("T-1001"),
               zipcode |-> JStr("46204")])

Addr2 == JObj([address1 |-> JStr("77 OAK AVE"), city |-> JStr("SPEEDWAY"),
               level |-> JStr("2"), number |-> JStr("77"),
               state |-> JStr("Indiana"), tag |-> JStr("T-2002"),
               zipcode |-> JStr("46224")])

\* the object v without key k / with key k set to val
Without(v, k) == JObj([x \in DOMAIN v.f \ {k} |-> v.f[x]])
With(v, k, val) ==
    JObj([x \in DOMAIN v.f \cup {k} |-> IF x = k THEN val ELSE v.f[x]])

\* Elements the geocoding service may put in its "addresses" list: complete
\* records, a record with a null field, a record with an extra field,
\* records missing one required key, the empty record, and elements that
\* are not records at all.
Cands ==
    {Addr1, Addr2, With(Addr1, "level", JNull), With(Addr2, "score", JNum(97))}
    \cup {Without(Addr1, k) : k \in RequiredSet}
    \cup {EmptyObj, JNum(5),
          JList([i \in 1..Len(required_keys) |-> JStr(required_keys[i])])}

TailCands == {Addr2, EmptyObj}

RECURSIVE TailSeqs(_)
TailSeqs(n) ==
    IF n = 0 THEN {<<>>}
    ELSE TailSeqs(n - 1) \cup
         {Append(s, c) : s \in {u \in TailSeqs(n - 1) : Len(u) = n - 1},
                         c \in TailCands}

CandLists == {<<>>} \cup {<<c>> \o u : c \in Cands, u \in TailSeqs(MaxCands - 1)}

GeoBodies ==
    {NonJson, JList(<<>>), EmptyObj, JObj([addresses |-> JNum(5)])}
    \cup {JObj([addresses |-> JList(c)]) : c \in CandLists}

GeoResponses ==
    Faults \cup {Http(422, NonJson), Http(500, NonJson)}
    \cup {Http(200, b) : b \in GeoBodies}

Parcel1 == JObj([x |-> JNum(10), y |-> JNum(20)])
Parcel2 == JObj([x |-> JNum(30), y |-> JNum(40), parcel_c |-> JStr("1001")])

Parcels ==
    {Parcel1, Parcel2, Without(Parcel2, "x"), Without(Parcel2, "y"),
     Without(Without(Parcel2, "x"), "y"), JNum(5),
     JList(<<JStr("x"), JStr("y")>>)}

TailParcels == {Parcel1}

RECURSIVE TailParcelSeqs(_)
TailParcelSeqs(n) ==
    IF n = 0 THEN {<<>>}
    ELSE TailParcelSeqs(n - 1) \cup
         {Append(s, c) : s \in {u \in TailParcelSeqs(n - 1) : Len(u) = n - 1},
                         c \in TailParcels}

ParcelLists ==
    {<<>>} \cup {<<c>> \o u : c \in Parcels, u \in TailParcelSeqs(MaxParcels - 1)}

ParcelBodies == {NonJson, Parcel1, JNull} \cup {JList(c) : c \in ParcelLists}

ParcelResponses ==
    Faults \cup {Http(500, NonJson)} \cup {Http(200, b) : b \in ParcelBodies}

Days == {JStr("Tuesday"), JStr("Friday")}
Heavies == {JStr(""), JStr("3rd Wednesday"), JNull}

Schedules ==
    {JObj([pickup_day |-> d]) : d \in Days \cup {JNull}}
    \cup {JObj([pickup_day |-> d, heavy_trash_pickup |-> h]) :
              d \in Days, h \in Heavies}
    \cup {JObj([heavy_trash_pickup |-> JStr("3rd Wednesday")]), EmptyObj,
          JNull, JNum(5), JList(<<JStr("pickup_day")>>)}

SchedResponses ==
    Faults \cup {Http(500, NonJson), Http(200, NonJson)}
    \cup {Http(200, b) : b \in Schedules}

\* ------------------------------------------------------------------------
\* The three fixed failure sentences and the success message
\* (a string is the sequence of the pieces it is concatenated from)
\* ------------------------------------------------------------------------
FAIL_ADDRESS ==
    <<"Sorry, I couldn't validate that address. Please provide a valid Indianapolis address.">>
FAIL_PARCEL ==
    <<"Sorry, I couldn't retrieve parcel information for that address.">>
FAIL_SCHEDULE ==
    <<"Sorry, I couldn't retrieve trash pickup details for that address.">>

\* ------------------------------------------------------------------------
\* The stages as functions of the response / of their argument
\* ------------------------------------------------------------------------
\* (variant: an ambiguous result answered with the last candidate)
SearchBody_Last(data) ==
    IF data.t # "obj" THEN None
    ELSE LET a == Get(data, "addresses", None) IN
         IF ~Truthy(a) THEN None
         ELSE IF a.t # "list" THEN None
         ELSE IF Len(a.items) = 1 THEN a.items[1]
         ELSE IF Len(a.items) > 1 THEN a.items[Len(a.items)]
         ELSE None

\* search_address: the candidate picked from the decoded body, None when
\* there is none or when decoding or picking raises (except Exception)
SearchBody(data) ==
    IF data.t # "obj" THEN None
    ELSE LET a == Get(data, "addresses", None) IN
         IF ~Truthy(a) THEN None
         ELSE IF a.t # "list" THEN None
         ELSE IF Len(a.items) = 1 THEN a.items[1]
         ELSE IF Len(a.items) > 1 THEN a.items[1]
         ELSE None

\* (variant: every HTTP error status retried)
IsRetry_AnyStatus(resp) == resp.fault = "none" /\ RaisesForStatus(resp)

\* search_address: the HTTPStatusError branch that retries
IsRetry(resp) ==
    resp.fault = "none" /\ RaisesForStatus(resp) /\ resp.status = 422

\* search_address: the value returned for a response that is not retried
SearchResult(resp) ==
    IF resp.fault # "none" THEN None
    ELSE IF RaisesForStatus(resp) THEN None
    ELSE SearchBody(resp.body)

\* (variant: tag sent under its own name)
ParcelParams_NoRename(ad) ==
    [address1 |-> ad.f["address1"],
     city |-> ad.f["city"],
     level |-> ad.f["level"],
     number |-> ad.f["number"],
     state |-> ad.f["state"],
     tag |-> ad.f["tag"],
     zipcode |-> ad.f["zipcode"]]

\* get_parcel_info: the request parameters built from the address details
ParcelParams(ad) ==
    [address1 |-> ad.f["address1"],
     city |-> ad.f["city"],
     level |-> ad.f["level"],
     number |-> ad.f["number"],
     state |-> ad.f["state"],
     tag_id |-> ad.f["tag"],
     zipcode |-> ad.f["zipcode"]]

\* get_parcel_info before its network call: the key check and the params
\* are outside the try block, so what they raise leaves the function
Stage2Entry(ad) ==
    IF ~CanContain(ad) THEN [k |-> "raise", err |-> "TypeError"]
    ELSE IF ~(\A i \in 1..Len(required_keys) : PyIn(required_keys[i], ad))
    THEN [k |-> "return", v |-> None]
    ELSE IF ad.t # "obj" THEN [k |-> "raise", err |-> "TypeError"]
    ELSE [k |-> "request", params |-> ParcelParams(ad)]

\* (variant: one coordinate is enough)
ParcelResult_EitherCoordinate(resp) ==
    IF resp.fault # "none" THEN None
    ELSE IF RaisesForStatus(resp) THEN None
    ELSE LET data == resp.body IN
         IF data.t = "nonjson" THEN None
         ELSE IF Truthy(data) /\ data.t = "list" /\ Len(data.items) > 0
         THEN LET parcel_data == data.items[1] IN
              IF ~CanContain(parcel_data) THEN None
              ELSE IF PyIn("x", parcel_data) \/ PyIn("y", parcel_data)
              THEN parcel_data
              ELSE None
         ELSE None

\* (variant: the first result returned without the coordinate check)
ParcelResult_Unchecked(resp) ==
    IF resp.fault # "none" THEN None
    ELSE IF RaisesForStatus(resp) THEN None
    ELSE LET data == resp.body IN
         IF data.t = "nonjson" THEN None
         ELSE IF Truthy(data) /\ data.t = "list" /\ Len(data.items) > 0
         THEN data.items[1]
         ELSE None

\* get_parcel_info: the value returned for a response
ParcelResult(resp) ==
    IF resp.fault # "none" THEN None
    ELSE IF RaisesForStatus(resp) THEN None
    ELSE LET data == resp.body IN
         IF data.t = "nonjson" THEN None
         ELSE IF Truthy(data) /\ data.t = "list" /\ Len(data.items) > 0
         THEN LET parcel_data == data.items[1] IN
              IF ~CanContain(parcel_data) THEN None
              ELSE IF PyIn("x", parcel_data) /\ PyIn("y", parcel_data)
              THEN parcel_data
              ELSE None
         ELSE None

\* get_trash_pickup_details before its network call
Stage3Entry(pinfo) ==
    IF ~CanContain(pinfo) THEN [k |-> "raise", err |-> "TypeError"]
    ELSE IF ~PyIn("x", pinfo) \/ ~PyIn("y", pinfo)
    THEN [k |-> "return", v |-> None]
    ELSE IF pinfo.t # "obj" THEN [k |-> "raise", err |-> "TypeError"]
    ELSE [k |-> "request", params |-> [x |-> pinfo.f["x"], y |-> pinfo.f["y"]]]

\* get_trash_pickup_details: the value returned for a response
SchedResult(resp) ==
    IF resp.fault # "none" THEN None
    ELSE IF RaisesForStatus(resp) THEN None
    ELSE LET data == resp.body IN
         IF data.t = "nonjson" THEN None
         ELSE IF ~Truthy(data) THEN None
         ELSE IF ~CanContain(data) THEN None
         ELSE IF PyIn("pickup_day", data) THEN data
         ELSE None

\* get_indy_trash_day, step 4: trash_details.get raises AttributeError
\* unless trash_details is a dict
FormatRaises(td) == td.t # "obj"

\* (variant: the heavy-trash clause appended whenever the key is present)
FormatResponse_HeavyIfPresent(td) ==
    LET pickup_day == Get(td, "pickup_day", JStr("Not specified"))
        heavy_trash == Get(td, "heavy_trash_pickup", JStr(""))
    IN  <<"Your regular trash pickup day is ", PyStr(pickup_day), ".">>
        \o (IF "heavy_trash_pickup" \in DOMAIN td.f
            THEN <<" Heavy trash pickup: ", PyStr(heavy_trash), ".">>
            ELSE <<>>)

FormatResponse(td) ==
    LET pickup_day == Get(td, "pickup_day", JStr("Not specified"))
        heavy_trash == Get(td, "heavy_trash_pickup", JStr(""))
    IN  <<"Your regular trash pickup day is ", PyStr(pickup_day), ".">>
        \o (IF Truthy(heavy_trash)
            THEN <<" Heavy trash pickup: ", PyStr(heavy_trash), ".">>
            ELSE <<>>)

\* ------------------------------------------------------------------------
\* State of one run of get_indy_trash_day
\* ------------------------------------------------------------------------
VARIABLES
    address,          \* the argument of get_indy_trash_day
    pc,               \* "start", the await the run is suspended at, "done"
    frames,           \* address_fragment of each active search_address frame
    clients,          \* the open httpx.AsyncClient contexts, innermost last
    requests,         \* every GET issued so far, in order
    geoResps,         \* the geocoding responses received so far, in order
    parcelResp,       \* the parcel response received
    schedResp,        \* the schedule response received
    address_details,  \* what search_address returned
    parcel_info,      \* what get_parcel_info returned
    trash_details,    \* what get_trash_pickup_details returned
    stage,            \* per stage: "idle", "running", "value", "none", "raised"
    outcome,          \* "running", "returned" or "raised"
    response,         \* the returned string
    error,            \* the exception that left get_indy_trash_day
    cur,              \* the task the variables above belong to
    other             \* the saved state of the task that is not running

vars == <<address, pc, frames, clients, requests, geoResps, parcelResp,
          schedResp, address_details, parcel_info, trash_details, stage,
          outcome, response, error, cur, other>>

\* the state of the running task, as the event loop keeps it for a task
\* suspended at an await
Context ==
    [address |-> address, pc |-> pc, frames |-> frames, clients |-> clients,
     requests |-> requests, geoResps |-> geoResps, parcelResp |-> parcelResp,
     schedResp |-> schedResp, address_details |-> address_details,
     parcel_info |-> parcel_info, trash_details |-> trash_details,
     stage |-> stage, outcome |-> outcome, response |-> response,
     error |-> error]

Unset == [t |-> "unset"]
NoResp == [fault |-> "unsent", status |-> 0, body |-> NonJson]

GeoRequest(fragment) ==
    [svc |-> "geo", params |-> [address_fragment |-> fragment]]
ParcelRequest(params) == [svc |-> "parcel", params |-> params]
SchedRequest(params) == [svc |-> "sched", params |-> params]

RunInit ==
    /\ address \in Addresses
    /\ pc = "start"
    /\ frames = <<>>
    /\ clients = <<>>
    /\ requests = <<>>
    /\ geoResps = <<>>
    /\ parcelResp = NoResp
    /\ schedResp = NoResp
    /\ address_details = Unset
    /\ parcel_info = Unset
    /\ trash_details = Unset
    /\ stage = [i \in 1..3 |-> "idle"]
    /\ outcome = "running"
    /\ response = <<>>
    /\ error = "none"

\* a task whose get_indy_trash_day(a) has not started yet
FreshRun(a) ==
    [address |-> a, pc |-> "start", frames |-> <<>>, clients |-> <<>>,
     requests |-> <<>>, geoResps |-> <<>>, parcelResp |-> NoResp,
     schedResp |-> NoResp, address_details |-> Unset, parcel_info |-> Unset,
     trash_details |-> Unset, stage |-> [i \in 1..3 |-> "idle"],
     outcome |-> "running", response |-> <<>>, error |-> "none"]

\* no second task
Parked == [FreshRun(<<>>) EXCEPT !.pc = "absent"]

\* a single call of get_indy_trash_day
Init ==
    /\ RunInit
    /\ cur = 1
    /\ other = Parked

\* get_indy_trash_day: `if not address_details`, `if not parcel_info`,
\* `if not trash_details`
\* (variant: the check after Stage 1 left out)
Stage1Failed_Omitted(v) == FALSE
Stage1Failed(v) == ~Truthy(v)
Stage2Failed(v) == ~Truthy(v)
Stage3Failed(v) == ~Truthy(v)

\* get_indy_trash_day returns msg; every client context has been left
Return(msg) ==
    /\ pc' = "done"
    /\ outcome' = "returned"
    /\ response' = msg
    /\ error' = "none"
    /\ clients' = <<>>

\* an exception leaves get_indy_trash_day; unwinding leaves the contexts
Raise(err) ==
    /\ pc' = "done"
    /\ outcome' = "raised"
    /\ response' = <<>>
    /\ error' = err
    /\ clients' = <<>>

\* get_indy_trash_day from the return of search_address (value v) to its
\* next await or its return
AfterStage1(v) ==
    LET e == Stage2Entry(v) IN
    /\ address_details' = v
    /\ IF Stage1Failed(v)
       THEN /\ stage' = [stage EXCEPT ![1] = IF v = None THEN "none" ELSE "value"]
            /\ Return(FAIL_ADDRESS)
            /\ UNCHANGED <<requests, parcel_info>>
       ELSE CASE e.k = "raise" ->
                   /\ stage' = [stage EXCEPT ![1] = "value", ![2] = "raised"]
                   /\ Raise(e.err)
                   /\ UNCHANGED <<requests, parcel_info>>
              [] e.k = "return" ->
                   /\ stage' = [stage EXCEPT ![1] = "value", ![2] = "none"]
                   /\ parcel_info' = e.v
                   /\ Return(FAIL_PARCEL)
                   /\ UNCHANGED requests
              [] e.k = "request" ->
                   /\ stage' = [stage EXCEPT ![1] = "value", ![2] = "running"]
                   /\ requests' = Append(requests, ParcelRequest(e.params))
                   /\ clients' = <<"parcel">>
                   /\ pc' = "parcel_wait"
                   /\ UNCHANGED <<parcel_info, outcome, response, error>>

\* (variant: one more parcel request when the first one gave nothing)
AfterStage2_RetryOnce(v) ==
    LET e == Stage3Entry(v) IN
    /\ parcel_info' = v
    /\ IF v = None /\ \A i \in 1..(Len(requests) - 1) : requests[i].svc # "parcel"
       THEN /\ requests' = Append(requests, requests[Len(requests)])
            /\ clients' = <<"parcel">>
            /\ UNCHANGED <<pc, stage, trash_details, outcome, response, error>>
       ELSE IF Stage2Failed(v)
       THEN /\ stage' = [stage EXCEPT ![2] = IF v = None THEN "none" ELSE "value"]
            /\ Return(FAIL_PARCEL)
            /\ UNCHANGED <<requests, trash_details>>
       ELSE CASE e.k = "raise" ->
                   /\ stage' = [stage EXCEPT ![2] = "value", ![3] = "raised"]
                   /\ Raise(e.err)
                   /\ UNCHANGED <<requests, trash_details>>
              [] e.k = "return" ->
                   /\ stage' = [stage EXCEPT ![2] = "value", ![3] = "none"]
                   /\ trash_details' = e.v
                   /\ Return(FAIL_SCHEDULE)
                   /\ UNCHANGED requests
              [] e.k = "request" ->
                   /\ stage' = [stage EXCEPT ![2] = "value", ![3] = "running"]
                   /\ requests' = Append(requests, SchedRequest(e.params))
                   /\ clients' = <<"sched">>
                   /\ pc' = "sched_wait"
                   /\ UNCHANGED <<trash_details, outcome, response, error>>

\* get_indy_trash_day from the return of get_parcel_info (value v) on
AfterStage2(v) ==
    LET e == Stage3Entry(v) IN
    /\ parcel_info' = v
    /\ IF Stage2Failed(v)
       THEN /\ stage' = [stage EXCEPT ![2] = IF v = None THEN "none" ELSE "value"]
            /\ Return(FAIL_PARCEL)
            /\ UNCHANGED <<requests, trash_details>>
       ELSE CASE e.k = "raise" ->
                   /\ stage' = [stage EXCEPT ![2] = "value", ![3] = "raised"]
                   /\ Raise(e.err)
                   /\ UNCHANGED <<requests, trash_details>>
              [] e.k = "return" ->
                   /\ stage' = [stage EXCEPT ![2] = "value", ![3] = "none"]
                   /\ trash_details' = e.v
                   /\ Return(FAIL_SCHEDULE)
                   /\ UNCHANGED requests
              [] e.k = "request" ->
                   /\ stage' = [stage EXCEPT ![2] = "value", ![3] = "running"]
                   /\ requests' = Append(requests, SchedRequest(e.params))
                   /\ clients' = <<"sched">>
                   /\ pc' = "sched_wait"
                   /\ UNCHANGED <<trash_details, outcome, response, error>>

\* get_indy_trash_day from the return of get_trash_pickup_details on
AfterStage3(v) ==
    /\ trash_details' = v
    /\ stage' = [stage EXCEPT ![3] = IF v = None THEN "none" ELSE "value"]
    /\ IF Stage3Failed(v) THEN Return(FAIL_SCHEDULE)
       ELSE IF FormatRaises(v) THEN Raise("AttributeError")
       ELSE Return(FormatResponse(v))

\* get_indy_trash_day after search_address returned v, as a function of the
\* parcel response pr and the schedule response sr it receives (NoResp for
\* a response the run is still waiting for): the requests it issues and how
\* it ends
Continuation(v, pr, sr) ==
    LET e2 == Stage2Entry(v)
        End(reqs, out, msg) ==
            [reqs |-> reqs, outcome |-> out, response |-> msg]
    IN
    IF Stage1Failed(v) THEN End(<<>>, "returned", FAIL_ADDRESS)
    ELSE IF e2.k = "raise" THEN End(<<>>, "raised", <<>>)
    ELSE IF e2.k = "return" THEN End(<<>>, "returned", FAIL_PARCEL)
    ELSE
    LET r2 == <<ParcelRequest(e2.params)>> IN
    IF pr = NoResp THEN End(r2, "running", <<>>)
    ELSE
    LET p == ParcelResult(pr)
        e3 == Stage3Entry(p)
    IN
    IF Stage2Failed(p) THEN End(r2, "returned", FAIL_PARCEL)
    ELSE IF e3.k = "raise" THEN End(r2, "raised", <<>>)
    ELSE IF e3.k = "return" THEN End(r2, "returned", FAIL_SCHEDULE)
    ELSE
    LET r3 == Append(r2, SchedRequest(e3.params)) IN
    IF sr = NoResp THEN End(r3, "running", <<>>)
    ELSE
    LET t == SchedResult(sr) IN
    IF Stage3Failed(t) THEN End(r3, "returned", FAIL_SCHEDULE)
    ELSE IF FormatRaises(t) THEN End(r3, "raised", <<>>)
    ELSE End(r3, "returned", FormatResponse(t))

\* ------------------------------------------------------------------------
\* Actions: each runs the code from one suspension point to the next
\* ------------------------------------------------------------------------
\* get_indy_trash_day is called and search_address issues its request
Begin ==
    /\ pc = "start"
    /\ pc' = "geo_wait"
    /\ frames' = <<address>>
    /\ clients' = <<"geo">>
    /\ requests' = <<GeoRequest(address)>>
    /\ stage' = [stage EXCEPT ![1] = "running"]
    /\ UNCHANGED <<cur, other, address, geoResps, parcelResp, schedResp, address_details,
                   parcel_info, trash_details, outcome, response, error>>

\* (variant: address_fragment kept in a module-level variable that the
\* other task has overwritten)
GeoRetry_SharedFragment ==
    /\ pc = "geo_wait"
    /\ Len(frames) < RecursionLimit
    /\ \E resp \in GeoResponses :
         /\ IsRetry(resp)
         /\ geoResps' = Append(geoResps, resp)
         /\ LET fragment ==
                    Truncate(IF other.frames # <<>>
                             THEN other.frames[Len(other.frames)]
                             ELSE frames[Len(frames)])
            IN
            /\ frames' = Append(frames, fragment)
            /\ clients' = Append(clients, "geo")
            /\ requests' = Append(requests, GeoRequest(fragment))
    /\ UNCHANGED <<cur, other, address, pc, parcelResp, schedResp, address_details,
                   parcel_info, trash_details, stage, outcome, response, error>>

\* the geocoding service answers 422: search_address calls itself with the
\* truncated fragment from inside its client context and its except block
GeoRetry ==
    /\ pc = "geo_wait"
    /\ Len(frames) < RecursionLimit
    /\ \E resp \in GeoResponses :
         /\ IsRetry(resp)
         /\ geoResps' = Append(geoResps, resp)
         /\ LET fragment == Truncate(frames[Len(frames)]) IN
            /\ frames' = Append(frames, fragment)
            /\ clients' = Append(clients, "geo")
            /\ requests' = Append(requests, GeoRequest(fragment))
    /\ UNCHANGED <<cur, other, address, pc, parcelResp, schedResp, address_details,
                   parcel_info, trash_details, stage, outcome, response, error>>

\* 422 at the recursion limit, RecursionError raised inside the innermost
\* try block: except Exception returns None through every frame
GeoRecursionCaught ==
    /\ pc = "geo_wait"
    /\ Len(frames) = RecursionLimit
    /\ \E resp \in GeoResponses :
         /\ IsRetry(resp)
         /\ geoResps' = Append(geoResps, resp)
    /\ frames' = <<>>
    /\ AfterStage1(None)
    /\ UNCHANGED <<cur, other, address, parcelResp, schedResp, trash_details>>

\* 422 at the recursion limit, RecursionError raised outside the try block
\* (or again in the handler): it propagates through the except blocks of
\* every outer frame and out of get_indy_trash_day
GeoRecursionRaised ==
    /\ pc = "geo_wait"
    /\ Len(frames) = RecursionLimit
    /\ \E resp \in GeoResponses :
         /\ IsRetry(resp)
         /\ geoResps' = Append(geoResps, resp)
    /\ frames' = <<>>
    /\ stage' = [stage EXCEPT ![1] = "raised"]
    /\ Raise("RecursionError")
    /\ UNCHANGED <<cur, other, address, requests, parcelResp, schedResp, address_details,
                   parcel_info, trash_details>>

\* (variant: the result of the recursive call is not returned)
GeoReturn_DropsRetryResult ==
    /\ pc = "geo_wait"
    /\ \E resp \in GeoResponses :
         /\ ~IsRetry(resp)
         /\ geoResps' = Append(geoResps, resp)
         /\ AfterStage1(IF Len(frames) > 1 THEN None ELSE SearchResult(resp))
    /\ frames' = <<>>
    /\ UNCHANGED <<cur, other, address, parcelResp, schedResp, trash_details>>

\* the geocoding service answers anything else: search_address returns
\* through every frame and get_indy_trash_day goes on
GeoReturn ==
    /\ pc = "geo_wait"
    /\ \E resp \in GeoResponses :
         /\ ~IsRetry(resp)
         /\ geoResps' = Append(geoResps, resp)
         /\ AfterStage1(SearchResult(resp))
    /\ frames' = <<>>
    /\ UNCHANGED <<cur, other, address, parcelResp, schedResp, trash_details>>

\* the parcel service answers
ParcelRespond ==
    /\ pc = "parcel_wait"
    /\ \E resp \in ParcelResponses :
         /\ parcelResp' = resp
         /\ AfterStage2(ParcelResult(resp))
    /\ UNCHANGED <<cur, other, address, frames, geoResps, schedResp, address_details>>

\* the schedule service answers
SchedRespond ==
    /\ pc = "sched_wait"
    /\ \E resp \in SchedResponses :
         /\ schedResp' = resp
         /\ AfterStage3(SchedResult(resp))
    /\ UNCHANGED <<cur, other, address, frames, requests, geoResps, parcelResp,
                   address_details, parcel_info>>

Next ==
    \/ Begin
    \/ GeoRetry
    \/ GeoRecursionCaught
    \/ GeoRecursionRaised
    \/ GeoReturn
    \/ ParcelRespond
    \/ SchedRespond

Spec == Init /\ [][Next]_vars

\* ------------------------------------------------------------------------
\* Two calls of get_indy_trash_day as two tasks of one event loop
\* ------------------------------------------------------------------------
\* The event loop resumes the other task: a task can only be left at one of
\* its awaits (or before its start, or after its end), which is where every
\* action above leaves it.
Switch ==
    /\ other.pc # "absent"
    /\ cur' = 3 - cur
    /\ other' = Context
    /\ address' = other.address
    /\ pc' = other.pc
    /\ frames' = other.frames
    /\ clients' = other.clients
    /\ requests' = other.requests
    /\ geoResps' = other.geoResps
    /\ parcelResp' = other.parcelResp
    /\ schedResp' = other.schedResp
    /\ address_details' = other.address_details
    /\ parcel_info' = other.parcel_info
    /\ trash_details' = other.trash_details
    /\ stage' = other.stage
    /\ outcome' = other.outcome
    /\ response' = other.response
    /\ error' = other.error

\* the addresses and the service answers of the two-task runs
TwoRunAddresses == {<<"a">>, <<"a", " ", "a">>}
TwoRunGeo ==
    {Http(422, NonJson), Fault("timeout"),
     Http(200, JObj([addresses |-> JList(<<Addr1>>)])),
     Http(200, JObj([addresses |-> JList(<<Addr2>>)]))}
TwoRunParcel ==
    {Fault("timeout"), Http(200, JList(<<Parcel1>>)),
     Http(200, JList(<<Parcel2>>))}
TwoRunSched ==
    {Fault("timeout"), Http(200, JObj([pickup_day |-> JStr("Tuesday")])),
     Http(200, JObj([pickup_day |-> JStr("Friday"),
                     heavy_trash_pickup |-> JStr("3rd Wednesday")]))}

TwoRunInputs ==
    /\ \A i \in 1..Len(geoResps) : geoResps[i] \in TwoRunGeo
    /\ parcelResp \in TwoRunParcel \cup {NoResp}
    /\ schedResp \in TwoRunSched \cup {NoResp}

InitTwoRuns ==
    /\ RunInit
    /\ address \in TwoRunAddresses
    /\ cur = 1
    /\ other \in {FreshRun(a) : a \in TwoRunAddresses}

NextTwoRuns ==
    \/ Begin /\ TwoRunInputs'
    \/ GeoRetry /\ TwoRunInputs'
    \/ GeoRecursionCaught /\ TwoRunInputs'
    \/ GeoRecursionRaised /\ TwoRunInputs'
    \/ GeoReturn /\ TwoRunInputs'
    \/ ParcelRespond /\ TwoRunInputs'
    \/ SchedRespond /\ TwoRunInputs'
    \/ Switch

SpecTwoRuns == InitTwoRuns /\ [][NextTwoRuns]_vars

TypeOK ==
    /\ pc \in {"start", "geo_wait", "parcel_wait", "sched_wait", "done"}
    /\ outcome \in {"running", "returned", "raised"}
    /\ Len(frames) <= RecursionLimit

\* ------------------------------------------------------------------------
\* Vocabulary of the properties
\* ------------------------------------------------------------------------
Last(q) == q[Len(q)]

RequestsTo(svc) == {i \in 1..Len(requests) : requests[i].svc = svc}

NoDownstreamRequest == RequestsTo("parcel") = {} /\ RequestsTo("sched") = {}

Failed(i) == stage[i] \in {"none", "raised"}
Succeeded(i) == stage[i] = "value"

\* the candidate list of a geocoding response; <<>> when the decoded body
\* is a record without a non-empty "addresses" list
HasCandidateList(resp) ==
    /\ resp.fault = "none"
    /\ resp.status = 200
    /\ resp.body.t = "obj"
    /\ "addresses" \in DOMAIN resp.body.f => resp.body.f["addresses"].t = "list"

Candidates(resp) ==
    IF "addresses" \in DOMAIN resp.body.f
    THEN resp.body.f["addresses"].items
    ELSE <<>>

\* ------------------------------------------------------------------------
\* Properties
\* ------------------------------------------------------------------------
\* C1: get_indy_trash_day never raises to its caller: whatever the address
\* and whatever the three services answer, a finished run has returned a
\* string.
C1_NeverRaises == pc = "done" => outcome = "returned"

\* C2: a failed run returns the fixed sentence of the first stage that
\* failed and of no other stage, and a run whose three stages all succeed
\* returns none of the three failure sentences.
C2_FirstFailedStageSentence ==
    pc = "done" =>
        /\ Failed(1) => outcome = "returned" /\ response = FAIL_ADDRESS
        /\ Succeeded(1) /\ Failed(2) =>
               outcome = "returned" /\ response = FAIL_PARCEL
        /\ Succeeded(1) /\ Succeeded(2) /\ Failed(3) =>
               outcome = "returned" /\ response = FAIL_SCHEDULE
        /\ Succeeded(1) /\ Succeeded(2) /\ Succeeded(3) =>
               /\ outcome = "returned"
               /\ response \notin {FAIL_ADDRESS, FAIL_PARCEL, FAIL_SCHEDULE}
        /\ response = FAIL_ADDRESS => Failed(1)
        /\ response = FAIL_PARCEL => Succeeded(1) /\ Failed(2)
        /\ response = FAIL_SCHEDULE =>
               Succeeded(1) /\ Succeeded(2) /\ Failed(3)

\* C3: when the geocoding service returns zero candidates the run returns
\* the address-validation failure sentence and has made no parcel-service
\* and no schedule-service request.
C3_ZeroCandidates ==
    (/\ geoResps # <<>>
     /\ HasCandidateList(Last(geoResps))
     /\ Candidates(Last(geoResps)) = <<>>)
    => /\ pc = "done"
       /\ outcome = "returned"
       /\ response = FAIL_ADDRESS
       /\ NoDownstreamRequest

\* a run in which the geocoding service answered 422 first and an empty
\* candidate list to the retry
C3_Witness ==
    /\ Len(geoResps) > 1
    /\ HasCandidateList(Last(geoResps))
    /\ "addresses" \in DOMAIN Last(geoResps).body.f
    /\ Candidates(Last(geoResps)) = <<>>
    /\ pc = "done"

\* C4: on a 422 from the geocoding service, a query of more than one token
\* is retried with exactly its last token removed, and a single-token query
\* makes Stage 1 fail without any further geocoding request.
C4_RetryByTruncation ==
    \A i \in 1..Len(geoResps) :
        IsRetry(geoResps[i]) =>
            LET toks == Split(requests[i].params.address_fragment) IN
            IF Len(toks) > 1
            THEN /\ Len(requests) > i
                 /\ requests[i + 1] =
                        GeoRequest(Join(SubSeq(toks, 1, Len(toks) - 1)))
            ELSE /\ Len(requests) = i
                 /\ pc = "done"
                 /\ response = FAIL_ADDRESS

\* C5: the number of geocoding requests of a run never exceeds the number
\* of tokens of the initial query (and is one for a query without tokens).
C5_RequestsBoundedByTokens ==
    Cardinality(RequestsTo("geo")) <= Len(Split(address))

\* the names of the parcel-service parameters: the required keys, with
\* "tag" sent as "tag_id"
ParamName(k) == IF k = "tag" THEN "tag_id" ELSE k

\* the parameters p carry the seven fields of the record c, and nothing else
CarriesSevenFields(p, c) ==
    /\ DOMAIN p = {ParamName(k) : k \in RequiredSet}
    /\ Cardinality(DOMAIN p) = 7
    /\ \A k \in RequiredSet : p[ParamName(k)] = c.f[k]

CompleteRecord(c) == c.t = "obj" /\ RequiredSet \subseteq DOMAIN c.f

\* C6: when the geocoding service returns exactly one candidate, the parcel
\* request carries exactly seven parameters, equal to the candidate's
\* address1, city, level, number, state, tag and zipcode, with tag sent as
\* tag_id; a complete candidate always leads to that request.
C6_SevenFieldsUnmodified ==
    (/\ geoResps # <<>>
     /\ HasCandidateList(Last(geoResps))
     /\ Len(Candidates(Last(geoResps))) = 1)
    => LET c == Candidates(Last(geoResps))[1] IN
       /\ \A i \in RequestsTo("parcel") :
              CarriesSevenFields(requests[i].params, c)
       /\ CompleteRecord(c) => Cardinality(RequestsTo("parcel")) = 1

\* a single candidate with an eighth field has been sent to the parcel service
C6_Witness ==
    /\ geoResps # <<>>
    /\ HasCandidateList(Last(geoResps))
    /\ Len(Candidates(Last(geoResps))) = 1
    /\ Candidates(Last(geoResps))[1].t = "obj"
    /\ "score" \in DOMAIN Candidates(Last(geoResps))[1].f
    /\ RequestsTo("parcel") # {}

\* C7: when the geocoding service returns more than one candidate, Stage 1
\* succeeds with the first candidate in response order, and that candidate
\* is the one Stage 2 works on.
C7_FirstCandidate ==
    (/\ geoResps # <<>>
     /\ HasCandidateList(Last(geoResps))
     /\ Len(Candidates(Last(geoResps))) > 1)
    => LET c == Candidates(Last(geoResps))[1] IN
       /\ Succeeded(1)
       /\ address_details = c
       /\ \A i \in RequestsTo("parcel") :
              CarriesSevenFields(requests[i].params, c)
       /\ CompleteRecord(c) => Cardinality(RequestsTo("parcel")) = 1

\* two different candidates were returned and the parcel request is out
C7_Witness ==
    /\ geoResps # <<>>
    /\ HasCandidateList(Last(geoResps))
    /\ Len(Candidates(Last(geoResps))) > 1
    /\ Candidates(Last(geoResps))[2] # Candidates(Last(geoResps))[1]
    /\ CompleteRecord(Candidates(Last(geoResps))[2])
    /\ pc = "parcel_wait"

\* the parcel service returned a non-empty list of results
HasParcelList(resp) ==
    /\ resp.fault = "none"
    /\ resp.status = 200
    /\ resp.body.t = "list"
    /\ resp.body.items # <<>>

MissingCoordinate(p) ==
    p.t = "obj" /\ ("x" \notin DOMAIN p.f \/ "y" \notin DOMAIN p.f)

\* C8: if the first parcel result lacks x, y or both, the run returns the
\* parcel-lookup failure sentence and never issues a schedule request.
C8_MissingCoordinates ==
    (HasParcelList(parcelResp) /\ MissingCoordinate(parcelResp.body.items[1]))
    => /\ pc = "done"
       /\ outcome = "returned"
       /\ response = FAIL_PARCEL
       /\ RequestsTo("sched") = {}

\* the first result lacks only y and a complete result follows it
C8_Witness ==
    /\ HasParcelList(parcelResp)
    /\ Len(parcelResp.body.items) > 1
    /\ parcelResp.body.items[1].t = "obj"
    /\ "x" \in DOMAIN parcelResp.body.items[1].f
    /\ MissingCoordinate(parcelResp.body.items[1])
    /\ ~MissingCoordinate(parcelResp.body.items[2])
    /\ pc = "done"

\* the text an f-string puts for a pickup day or heavy-trash value
Shown(v) == IF v.t = "str" THEN v.s ELSE "None"

HeavyPresent(td) ==
    /\ "heavy_trash_pickup" \in DOMAIN td.f
    /\ td.f["heavy_trash_pickup"] \notin {JStr(""), JNull}

\* C9: when all three stages succeed the output is "Your regular trash
\* pickup day is {day}." with the schedule's pickup_day, followed by
\* " Heavy trash pickup: {heavy}." if and only if the schedule's heavy-trash
\* field is present and non-empty.
C9_SuccessMessage ==
    (/\ pc = "done"
     /\ Succeeded(1) /\ Succeeded(2) /\ Succeeded(3)
     /\ trash_details.t = "obj")
    => /\ outcome = "returned"
       /\ response =
              <<"Your regular trash pickup day is ",
                Shown(trash_details.f["pickup_day"]), ".">>
              \o (IF HeavyPresent(trash_details)
                  THEN <<" Heavy trash pickup: ",
                         Shown(trash_details.f["heavy_trash_pickup"]), ".">>
                  ELSE <<>>)

\* a run that returned both clauses
C9_Witness ==
    /\ pc = "done"
    /\ Succeeded(1) /\ Succeeded(2) /\ Succeeded(3)
    /\ trash_details.t = "obj"
    /\ HeavyPresent(trash_details)
    /\ Len(response) = 6

\* C10: if the candidate returned by Stage 1 lacks any of the seven
\* canonical fields, the run makes no parcel-service and no schedule-service
\* request and returns the parcel-lookup failure sentence.
C10_IncompleteCandidate ==
    (/\ pc = "done"
     /\ Succeeded(1)
     /\ address_details.t = "obj"
     /\ ~CompleteRecord(address_details))
    => /\ NoDownstreamRequest
       /\ outcome = "returned"
       /\ response = FAIL_PARCEL

\* a geocoding fault that is not the 422 answer: a transport fault or
\* another HTTP error status
OtherGeoFault(resp) ==
    \/ resp.fault # "none"
    \/ resp.status \notin 200..299 /\ resp.status # 422

\* C11: a geocoding fault other than HTTP 422 ends Stage 1 at once: no
\* geocoding request follows the faulted one, no parcel or schedule request
\* is made, and the run returns exactly the address-validation sentence.
C11_OtherFaultNoRetry ==
    \A i \in 1..Len(geoResps) :
        OtherGeoFault(geoResps[i]) =>
            /\ i = Len(geoResps)
            /\ Len(requests) = i
            /\ NoDownstreamRequest
            /\ pc = "done"
            /\ outcome = "returned"
            /\ response = FAIL_ADDRESS

\* a retried query whose second request hit an HTTP 500
C11_Witness ==
    /\ Len(geoResps) = 2
    /\ IsRetry(geoResps[1])
    /\ geoResps[2] = Http(500, NonJson)
    /\ pc = "done"

Rank(svc) == CASE svc = "geo" -> 1 [] svc = "parcel" -> 2 [] svc = "sched" -> 3

HasCoordinates(p) == p.t = "obj" /\ {"x", "y"} \subseteq DOMAIN p.f

\* C12: the requests of a run follow the order geocode, parcel, schedule:
\* a parcel request only after a geocoding request returned a candidate, a
\* schedule request only after the parcel request returned a parcel with
\* coordinates, no geocoding request after a parcel request, and at most
\* one parcel request and one schedule request per run.
C12_LinearOrder ==
    /\ \A i, j \in 1..Len(requests) :
           i < j => Rank(requests[i].svc) <= Rank(requests[j].svc)
    /\ Cardinality(RequestsTo("parcel")) <= 1
    /\ Cardinality(RequestsTo("sched")) <= 1
    /\ RequestsTo("parcel") # {} =>
           /\ Len(geoResps) = Cardinality(RequestsTo("geo"))
           /\ HasCandidateList(Last(geoResps))
           /\ Candidates(Last(geoResps)) # <<>>
    /\ RequestsTo("sched") # {} =>
           /\ RequestsTo("parcel") # {}
           /\ HasParcelList(parcelResp)
           /\ HasCoordinates(parcelResp.body.items[1])

\* a retried run that made all three kinds of request and whose schedule
\* request timed out
C12_Witness ==
    /\ Len(geoResps) > 1
    /\ RequestsTo("sched") # {}
    /\ schedResp = Fault("timeout")
    /\ response = FAIL_SCHEDULE

\* C13: a run holds at most one open client at any moment (the client of
\* an attempt is closed before the retry's request is issued) and no client
\* is open when the run has returned.
C13_OneClientAtATime ==
    /\ Len(clients) <= 1
    /\ pc = "done" => clients = <<>>

\* C15: every parcel-service request carries the seven parameters with
\* non-null values.
C15_ParamsNonNull ==
    \A i \in RequestsTo("parcel") :
        /\ Cardinality(DOMAIN requests[i].params) = 7
        /\ \A k \in DOMAIN requests[i].params : requests[i].params[k] # JNull

\* C16: every parcel handed to get_trash_pickup_details carries x and y, so
\* its local check never fails and a schedule-lookup failure sentence always
\* follows an actual schedule-service request.
C16_ScheduleFailureAfterRequest ==
    /\ stage[3] # "idle" =>
           /\ CanContain(parcel_info)
           /\ PyIn("x", parcel_info) /\ PyIn("y", parcel_info)
    /\ (outcome = "returned" /\ response = FAIL_SCHEDULE) =>
           /\ RequestsTo("sched") # {}
           /\ schedResp # NoResp

\* the schedule service answered without a pickup day
C16_Witness ==
    /\ outcome = "returned"
    /\ response = FAIL_SCHEDULE
    /\ schedResp.fault = "none"
    /\ schedResp.status = 200
    /\ RequestsTo("sched") # {}

\* C17: when a truncation retry obtains a candidate, the run goes on as if
\* the truncated query had been the original input: the parcel request is
\* built from the candidate returned for the truncated query, and the
\* requests after it and the end of the run are those of a run that got
\* this answer to its first geocoding request.
C17_RetryLeavesNoTrace ==
    (/\ Len(geoResps) > 1
     /\ HasCandidateList(Last(geoResps))
     /\ Candidates(Last(geoResps)) # <<>>)
    => LET n == Len(geoResps)
           c == Candidates(Last(geoResps))[1]
           fresh == Continuation(SearchResult(Last(geoResps)),
                                 parcelResp, schedResp)
       IN
       /\ Len(requests) >= n
       /\ SubSeq(requests, n + 1, Len(requests)) = fresh.reqs
       /\ outcome = fresh.outcome
       /\ response = fresh.response
       /\ \A i \in RequestsTo("parcel") :
              CarriesSevenFields(requests[i].params, c)

\* two 422 answers, then a candidate, and the run returned a pickup day
C17_Witness ==
    /\ Len(geoResps) = 3
    /\ HasCandidateList(Last(geoResps))
    /\ Candidates(Last(geoResps)) # <<>>
    /\ RequestsTo("sched") # {}
    /\ outcome = "returned"
    /\ response \notin {FAIL_ADDRESS, FAIL_PARCEL, FAIL_SCHEDULE}

\* the fragment after n truncations
RECURSIVE TruncateN(_, _)
TruncateN(q, n) == IF n = 0 THEN q ELSE TruncateN(Truncate(q), n - 1)

\* What a call get_indy_trash_day(c.address) does when it runs alone and
\* receives the answers the task c has received so far: the requests it has
\* issued and how it has ended.  (At the recursion limit the interpreter
\* decides whether RecursionError escapes; c.error tells which it was.)
Alone(c) ==
    LET gr == c.geoResps
        k == Len(gr)
        geo(m) == [i \in 1..m |-> GeoRequest(TruncateN(c.address, i - 1))]
        retried == \A i \in 1..k : IsRetry(gr[i])
        rest(v) == Continuation(v, c.parcelResp, c.schedResp)
    IN
    IF c.pc = "start"
    THEN [reqs |-> <<>>, outcome |-> "running", response |-> <<>>]
    ELSE IF retried /\ k < RecursionLimit
    THEN [reqs |-> geo(k + 1), outcome |-> "running", response |-> <<>>]
    ELSE IF retried /\ c.error = "RecursionError"
    THEN [reqs |-> geo(k), outcome |-> "raised", response |-> <<>>]
    ELSE LET r == rest(IF retried THEN None ELSE SearchResult(gr[k])) IN
         [reqs |-> geo(k) \o r.reqs, outcome |-> r.outcome,
          response |-> r.response]

SameAsAlone(c) ==
    /\ c.requests = Alone(c).reqs
    /\ c.outcome = Alone(c).outcome
    /\ c.response = Alone(c).response

\* C14: two runs interleaved at their awaits are independent: the requests
\* and the returned string of each are those of the same call running alone
\* with the same service answers, and a step of one run leaves the address,
\* the stage results, the clients and everything else of the other run as
\* they were.
C14_RunsIndependent ==
    /\ [](SameAsAlone(Context) /\ SameAsAlone(other))
    /\ [][/\ cur' = cur => other' = other
          /\ cur' # cur => other' = Context /\ Context' = other]_vars

\* both tasks are in the middle of their runs: one waits for the answer to
\* a retried geocoding request, the other for the parcel service
C14_Witness ==
    /\ pc = "geo_wait"
    /\ Len(frames) = 2
    /\ other.pc = "parcel_wait"
    /\ Len(other.geoResps) = 2
    /\ other.address # address

====
